---- MODULE Spec2Model ----
(***************************************************************************)
(* The relational schema of collabtasks/models.py as a state machine.      *)
(*                                                                         *)
(* The state is the content of the tables the model classes declare; the  *)
(* operations are the writes the ORM offers on every model class:          *)
(*   create  - Model.objects.create(...)  (clean = FALSE), or              *)
(*             obj.full_clean(); obj.save()  (clean = TRUE);               *)
(*   update  - assigning the fields of a stored object and calling save(), *)
(*             with or without full_clean() before it;                     *)
(*   delete  - obj.delete(), which collects the dependents named by the    *)
(*             on_delete declarations and removes / clears them.           *)
(* Every field option that decides the outcome of a write is modelled:     *)
(* unique, null, choices, on_delete, auto_now_add, auto_now.  Free-text    *)
(* columns that carry no constraint (name, description, notes, image_url,  *)
(* ...) and the columns inherited from AbstractUser are left out; one      *)
(* plain column (completed) stands for them where a model has one.         *)
(***************************************************************************)
EXTENDS Integers, FiniteSets, Sequences, TLC

\* ------------------------------------------------------------------ bounds
MaxUsers       == 2
MaxTaskLists   == 1
MaxTasks       == 1
MaxRooms       == 2
MaxAssignments == 1
MaxChecks      == 1
MaxCheckImages == 1
MaxContacts    == 1
MaxRoomImages  == 1
MaxOps         == 7    \* successful writes in one behaviour
MaxClock       == 2    \* readings of the database clock

\* ------------------------------------------------------- values of columns
NullId  == 0            \* NULL in a foreign-key column (primary keys start at 1)
NullStr == "<null>"     \* NULL in a character column ("" is a present value)

ROLE_CHOICES       == {"admin", "dpt_staff", "student"}
STATUS_CHOICES     == {"enrolled", "unenrolled"}
RECURRENCE_CHOICES == {"none", "daily", "weekly"}
IMAGE_TYPE_CHOICES == {"default", "floorplan"}

RoleDefault       == "student"
StatusDefault     == "enrolled"
RecurrenceDefault == "none"
ImageTypeDefault  == "default"

VARIABLES
    users,          \* id -> [student_id, role, status, email, created_at, updated_at]
    rooms_access,   \* join table of User.rooms_access: set of <<user id, room id>>
    tasklists,      \* id -> [user, created_at, updated_at]
    tasks,          \* id -> [completed, task_list, recurrence_type, assigned_to, ...]
    rooms,          \* id -> [created_at, updated_at]
    assignments,    \* id -> [room, user, ...]
    checks,         \* id -> [room, task, completed, student_staff, ...]
    checkimages,    \* id -> [room_check, ...]
    contacts,       \* id -> [room, ...]
    roomimages,     \* id -> [room, image_type, ...]
    nextId,         \* per table: the next value of the auto-increment primary key
    now,            \* the reading of the database clock
    ops,            \* number of successful writes so far
    last            \* the last operation: what was asked and what came back

tables == <<users, rooms_access, tasklists, tasks, rooms, assignments, checks,
            checkimages, contacts, roomimages>>
vars == <<users, rooms_access, tasklists, tasks, rooms, assignments, checks,
          checkimages, contacts, roomimages, nextId, now, ops, last>>

\* ------------------------------------------------------------ table helpers
Put(tbl, id, rec) == [i \in DOMAIN tbl \cup {id} |-> IF i = id THEN rec ELSE tbl[i]]
Drop(tbl, ids)    == [i \in DOMAIN tbl \ ids |-> tbl[i]]
Empty             == [i \in {} |-> 0]

\* What a delete collected: the rows removed per table and the Tasks cleared.
NoRows == [users |-> {}, access |-> {}, tasklists |-> {}, tasks |-> {}, rooms |-> {},
           assignments |-> {}, checks |-> {}, checkimages |-> {}, contacts |-> {},
           roomimages |-> {}, nulled |-> {}]

\* The record of an operation: op and id name it, errors are the constraint
\* violations it was refused for (none: it was carried out), sid and email are
\* the unique columns a User write asked for, rows is what a delete collected.
Done(op, id, errors, sid, email, rows) ==
    [op |-> op, id |-> id, errors |-> errors, sid |-> sid, email |-> email,
     rows |-> rows]

Init ==
    /\ users = Empty /\ rooms_access = {} /\ tasklists = Empty /\ tasks = Empty
    /\ rooms = Empty /\ assignments = Empty /\ checks = Empty
    /\ checkimages = Empty /\ contacts = Empty /\ roomimages = Empty
    /\ nextId = [users |-> 1, tasklists |-> 1, tasks |-> 1, rooms |-> 1,
                 assignments |-> 1, checks |-> 1, checkimages |-> 1,
                 contacts |-> 1, roomimages |-> 1]
    /\ now = 0
    /\ ops = 0
    /\ last = Done("init", NullId, {}, NullStr, NullStr, NoRows)

\* A write that the storage layer refuses changes no table and no counter.
Refuse(op, id, errors, sid, email) ==
    /\ last' = Done(op, id, errors, sid, email, NoRows)
    /\ UNCHANGED <<tables, nextId, now, ops>>

\* ------------------------------------------------------------- field checks
\* The violation a failed check reports.
Err(ok, kind) == IF ok THEN {} ELSE {kind}

\* choices=...: checked by full_clean() only; save() writes the value as given.
ChoiceOK(value, choices, clean) == (~clean) \/ value \in choices

\* unique=True, null=True: a UNIQUE column constraint; NULL never conflicts.
UniqueNullTreatedAsValue(tbl, col, value, self) ==
    \A i \in DOMAIN tbl \ {self} : tbl[i][col] # value
UniqueIgnored(tbl, col, value, self) == TRUE
UniqueOK(tbl, col, value, self) ==
    value = NullStr \/ \A i \in DOMAIN tbl \ {self} : tbl[i][col] # value

\* ForeignKey(X): the value must be the primary key of a stored X.
FkAnyId(tbl, id) == id # NullId
FkOK(tbl, id) == id \in DOMAIN tbl
\* ForeignKey(X, null=True): NULL or the primary key of a stored X.
FkNullOK(tbl, id) == id = NullId \/ FkOK(tbl, id)

\* auto_now_add=True / auto_now=True
Stamp(rec) == [created_at |-> now, updated_at |-> now] @@ rec
Touch(old, rec) == [created_at |-> old.created_at, updated_at |-> now] @@ rec

\* The clock moves on between operations.
Tick ==
    /\ now < MaxClock
    /\ now' = now + 1
    /\ UNCHANGED <<tables, nextId, ops, last>>

\* --------------------------------------------------------------------- User
\* User.objects.create(student_id=sid, email=email, role=role, status=status)
CreateUser(sid, email, role, status, clean) ==
    /\ ops < MaxOps
    /\ nextId.users <= MaxUsers
    /\ LET errs == Err(ChoiceOK(role, ROLE_CHOICES, clean)
                         /\ ChoiceOK(status, STATUS_CHOICES, clean),
                       "invalid_choice")
               \cup Err(UniqueOK(users, "student_id", sid, NullId)
                   /\ UniqueOK(users, "email", email, NullId),
                         "unique") IN
       IF errs # {}
         THEN Refuse("CreateUser", NullId, errs, sid, email)
       ELSE
         /\ users' = Put(users, nextId.users,
                         Stamp([student_id |-> sid, role |-> role,
                                status |-> status, email |-> email]))
         /\ nextId' = [nextId EXCEPT !.users = @ + 1]
         /\ ops' = ops + 1
         /\ last' = Done("CreateUser", nextId.users, {}, sid, email, NoRows)
         /\ UNCHANGED <<rooms_access, tasklists, tasks, rooms, assignments, checks,
                        checkimages, contacts, roomimages, now>>

\* u.student_id = sid; u.email = email; u.role = role; u.status = status; u.save()
UpdateUser(u, sid, email, role, status, clean) ==
    /\ ops < MaxOps
    /\ u \in DOMAIN users
    /\ LET errs == Err(ChoiceOK(role, ROLE_CHOICES, clean)
                         /\ ChoiceOK(status, STATUS_CHOICES, clean),
                       "invalid_choice")
               \cup Err(UniqueOK(users, "student_id", sid, u) /\ UniqueOK(users, "email", email, u),
                         "unique") IN
       IF errs # {}
         THEN Refuse("UpdateUser", u, errs, sid, email)
       ELSE
         /\ users' = Put(users, u,
                         Touch(users[u], [student_id |-> sid, role |-> role,
                                          status |-> status, email |-> email]))
         /\ ops' = ops + 1
         /\ last' = Done("UpdateUser", u, {}, sid, email, NoRows)
         /\ UNCHANGED <<rooms_access, tasklists, tasks, rooms, assignments, checks,
                        checkimages, contacts, roomimages, nextId, now>>

\* u.rooms_access.add(r): a row of the join table; the User row is not saved.
GrantAccess(u, r) ==
    /\ ops < MaxOps
    /\ u \in DOMAIN users
    /\ <<u, r>> \notin rooms_access
    /\ IF ~FkOK(rooms, r)
         THEN Refuse("GrantAccess", u, {"fk_not_found"}, NullStr, NullStr)
       ELSE
         /\ rooms_access' = rooms_access \cup {<<u, r>>}
         /\ ops' = ops + 1
         /\ last' = Done("GrantAccess", u, {}, NullStr, NullStr, NoRows)
         /\ UNCHANGED <<users, tasklists, tasks, rooms, assignments, checks,
                        checkimages, contacts, roomimages, nextId, now>>

\* u.rooms_access.remove(r)
RevokeAccess(u, r) ==
    /\ ops < MaxOps
    /\ <<u, r>> \in rooms_access
    /\ rooms_access' = rooms_access \ {<<u, r>>}
    /\ ops' = ops + 1
    /\ last' = Done("RevokeAccess", u, {}, NullStr, NullStr, NoRows)
    /\ UNCHANGED <<users, tasklists, tasks, rooms, assignments, checks,
                   checkimages, contacts, roomimages, nextId, now>>

\* The rooms a User has access to (user.rooms_access.all()).
RoomsAccess(access, u) == {p[2] : p \in {q \in access : q[1] = u}}

\* ------------------------------------------------------------------ TaskList
\* TaskList.objects.create(user_id=user)
CreateTaskList(user) ==
    /\ ops < MaxOps
    /\ nextId.tasklists <= MaxTaskLists
    /\ LET errs == Err(FkOK(users, user),
                       "fk_not_found") IN
       IF errs # {}
         THEN Refuse("CreateTaskList", NullId, errs, NullStr, NullStr)
       ELSE
         /\ tasklists' = Put(tasklists, nextId.tasklists, Stamp([user |-> user]))
         /\ nextId' = [nextId EXCEPT !.tasklists = @ + 1]
         /\ ops' = ops + 1
         /\ last' = Done("CreateTaskList", nextId.tasklists, {}, NullStr, NullStr, NoRows)
         /\ UNCHANGED <<users, rooms_access, tasks, rooms, assignments, checks,
                        checkimages, contacts, roomimages, now>>

\* l.user_id = user; l.save()
UpdateTaskList(l, user) ==
    /\ ops < MaxOps
    /\ l \in DOMAIN tasklists
    /\ LET errs == Err(FkOK(users, user),
                       "fk_not_found") IN
       IF errs # {}
         THEN Refuse("UpdateTaskList", l, errs, NullStr, NullStr)
       ELSE
         /\ tasklists' = Put(tasklists, l, Touch(tasklists[l], [user |-> user]))
         /\ ops' = ops + 1
         /\ last' = Done("UpdateTaskList", l, {}, NullStr, NullStr, NoRows)
         /\ UNCHANGED <<users, rooms_access, tasks, rooms, assignments, checks,
                        checkimages, contacts, roomimages, nextId, now>>

\* ---------------------------------------------------------------------- Task
\* Task.objects.create(task_list_id=..., assigned_to_id=...,
\*     recurrence_type=..., completed=...)
CreateTask(task_list, assigned_to, recurrence, completed, clean) ==
    /\ ops < MaxOps
    /\ nextId.tasks <= MaxTasks
    /\ LET errs == Err(ChoiceOK(recurrence, RECURRENCE_CHOICES, clean),
                       "invalid_choice")
               \cup Err(FkOK(tasklists, task_list) /\ FkNullOK(users, assigned_to),
                         "fk_not_found") IN
       IF errs # {}
         THEN Refuse("CreateTask", NullId, errs, NullStr, NullStr)
       ELSE
         /\ tasks' = Put(tasks, nextId.tasks,
                         Stamp([completed |-> completed, task_list |-> task_list,
                                recurrence_type |-> recurrence, assigned_to |-> assigned_to]))
         /\ nextId' = [nextId EXCEPT !.tasks = @ + 1]
         /\ ops' = ops + 1
         /\ last' = Done("CreateTask", nextId.tasks, {}, NullStr, NullStr, NoRows)
         /\ UNCHANGED <<users, rooms_access, tasklists, rooms, assignments, checks,
                        checkimages, contacts, roomimages, now>>

\* t.task_list_id = ...; t.assigned_to_id = ...;
\*   t.recurrence_type = ...; t.completed = ...; t.save()
UpdateTask(t, task_list, assigned_to, recurrence, completed, clean) ==
    /\ ops < MaxOps
    /\ t \in DOMAIN tasks
    /\ LET errs == Err(ChoiceOK(recurrence, RECURRENCE_CHOICES, clean),
                       "invalid_choice")
               \cup Err(FkOK(tasklists, task_list) /\ FkNullOK(users, assigned_to),
                         "fk_not_found") IN
       IF errs # {}
         THEN Refuse("UpdateTask", t, errs, NullStr, NullStr)
       ELSE
         /\ tasks' = Put(tasks, t,
                         Touch(tasks[t], [completed |-> completed, task_list |-> task_list,
                                recurrence_type |-> recurrence, assigned_to |-> assigned_to]))
         /\ ops' = ops + 1
         /\ last' = Done("UpdateTask", t, {}, NullStr, NullStr, NoRows)
         /\ UNCHANGED <<users, rooms_access, tasklists, rooms, assignments, checks,
                        checkimages, contacts, roomimages, nextId, now>>

\* ---------------------------------------------------------------------- Room
\* Room.objects.create(name=..., floor=...)
CreateRoom ==
    /\ ops < MaxOps
    /\ nextId.rooms <= MaxRooms
    /\ rooms' = Put(rooms, nextId.rooms, Stamp(<<>>))
    /\ nextId' = [nextId EXCEPT !.rooms = @ + 1]
    /\ ops' = ops + 1
    /\ last' = Done("CreateRoom", nextId.rooms, {}, NullStr, NullStr, NoRows)
    /\ UNCHANGED <<users, rooms_access, tasklists, tasks, assignments, checks,
                   checkimages, contacts, roomimages, now>>

\* r.save()
UpdateRoom(r) ==
    /\ ops < MaxOps
    /\ r \in DOMAIN rooms
    /\ rooms' = Put(rooms, r, Touch(rooms[r], <<>>))
    /\ ops' = ops + 1
    /\ last' = Done("UpdateRoom", r, {}, NullStr, NullStr, NoRows)
    /\ UNCHANGED <<users, rooms_access, tasklists, tasks, assignments, checks,
                   checkimages, contacts, roomimages, nextId, now>>

\* ------------------------------------------------------------ RoomAssignment
\* RoomAssignment.objects.create(room_id=room, user_id=user)
CreateRoomAssignment(room, user) ==
    /\ ops < MaxOps
    /\ nextId.assignments <= MaxAssignments
    /\ LET errs == Err(FkOK(rooms, room) /\ FkOK(users, user),
                       "fk_not_found") IN
       IF errs # {}
         THEN Refuse("CreateRoomAssignment", NullId, errs, NullStr, NullStr)
       ELSE
         /\ assignments' = Put(assignments, nextId.assignments,
                               Stamp([room |-> room, user |-> user]))
         /\ nextId' = [nextId EXCEPT !.assignments = @ + 1]
         /\ ops' = ops + 1
         /\ last' =
             Done("CreateRoomAssignment", nextId.assignments, {}, NullStr, NullStr, NoRows)
         /\ UNCHANGED <<users, rooms_access, tasklists, tasks, rooms, checks,
                        checkimages, contacts, roomimages, now>>

\* a.room_id = room; a.user_id = user; a.save()
UpdateRoomAssignment(a, room, user) ==
    /\ ops < MaxOps
    /\ a \in DOMAIN assignments
    /\ LET errs == Err(FkOK(rooms, room) /\ FkOK(users, user),
                       "fk_not_found") IN
       IF errs # {}
         THEN Refuse("UpdateRoomAssignment", a, errs, NullStr, NullStr)
       ELSE
         /\ assignments' = Put(assignments, a,
                               Touch(assignments[a], [room |-> room, user |-> user]))
         /\ ops' = ops + 1
         /\ last' = Done("UpdateRoomAssignment", a, {}, NullStr, NullStr, NoRows)
         /\ UNCHANGED <<users, rooms_access, tasklists, tasks, rooms, checks,
                        checkimages, contacts, roomimages, nextId, now>>

\* ----------------------------------------------------------------- RoomCheck
\* RoomCheck.objects.create(room_id=..., task_id=..., student_staff_id=..., completed=...)
CreateRoomCheck(room, task, student_staff, completed) ==
    /\ ops < MaxOps
    /\ nextId.checks <= MaxChecks
    /\ LET errs == Err(FkOK(rooms, room) /\ FkOK(tasks, task) /\ FkOK(users, student_staff),
                       "fk_not_found") IN
       IF errs # {}
         THEN Refuse("CreateRoomCheck", NullId, errs, NullStr, NullStr)
       ELSE
         /\ checks' = Put(checks, nextId.checks,
                          Stamp([room |-> room, task |-> task, completed |-> completed,
                                student_staff |-> student_staff]))
         /\ nextId' = [nextId EXCEPT !.checks = @ + 1]
         /\ ops' = ops + 1
         /\ last' = Done("CreateRoomCheck", nextId.checks, {}, NullStr, NullStr, NoRows)
         /\ UNCHANGED <<users, rooms_access, tasklists, tasks, rooms, assignments,
                        checkimages, contacts, roomimages, now>>

\* c.room_id = ...; c.task_id = ...; c.student_staff_id = ...; c.completed = ...; c.save()
UpdateRoomCheck(c, room, task, student_staff, completed) ==
    /\ ops < MaxOps
    /\ c \in DOMAIN checks
    /\ LET errs == Err(FkOK(rooms, room) /\ FkOK(tasks, task) /\ FkOK(users, student_staff),
                       "fk_not_found") IN
       IF errs # {}
         THEN Refuse("UpdateRoomCheck", c, errs, NullStr, NullStr)
       ELSE
         /\ checks' = Put(checks, c,
                          Touch(checks[c],
                                [room |-> room, task |-> task, completed |-> completed,
                                student_staff |-> student_staff]))
         /\ ops' = ops + 1
         /\ last' = Done("UpdateRoomCheck", c, {}, NullStr, NullStr, NoRows)
         /\ UNCHANGED <<users, rooms_access, tasklists, tasks, rooms, assignments,
                        checkimages, contacts, roomimages, nextId, now>>

\* ------------------------------------------------------------ RoomCheckImage
\* RoomCheckImage.objects.create(room_check_id=room_check)
CreateRoomCheckImage(room_check) ==
    /\ ops < MaxOps
    /\ nextId.checkimages <= MaxCheckImages
    /\ LET errs == Err(FkOK(checks, room_check),
                       "fk_not_found") IN
       IF errs # {}
         THEN Refuse("CreateRoomCheckImage", NullId, errs, NullStr, NullStr)
       ELSE
         /\ checkimages' = Put(checkimages, nextId.checkimages,
                               Stamp([room_check |-> room_check]))
         /\ nextId' = [nextId EXCEPT !.checkimages = @ + 1]
         /\ ops' = ops + 1
         /\ last' =
             Done("CreateRoomCheckImage", nextId.checkimages, {}, NullStr, NullStr, NoRows)
         /\ UNCHANGED <<users, rooms_access, tasklists, tasks, rooms, assignments,
                        checks, contacts, roomimages, now>>

\* i.room_check_id = room_check; i.save()
UpdateRoomCheckImage(i, room_check) ==
    /\ ops < MaxOps
    /\ i \in DOMAIN checkimages
    /\ LET errs == Err(FkOK(checks, room_check),
                       "fk_not_found") IN
       IF errs # {}
         THEN Refuse("UpdateRoomCheckImage", i, errs, NullStr, NullStr)
       ELSE
         /\ checkimages' = Put(checkimages, i,
                               Touch(checkimages[i], [room_check |-> room_check]))
         /\ ops' = ops + 1
         /\ last' = Done("UpdateRoomCheckImage", i, {}, NullStr, NullStr, NoRows)
         /\ UNCHANGED <<users, rooms_access, tasklists, tasks, rooms, assignments,
                        checks, contacts, roomimages, nextId, now>>

\* ------------------------------------------------------------ ContactAttempt
\* ContactAttempt.objects.create(room_id=room, ...)
CreateContactAttempt(room) ==
    /\ ops < MaxOps
    /\ nextId.contacts <= MaxContacts
    /\ LET errs == Err(FkOK(rooms, room),
                       "fk_not_found") IN
       IF errs # {}
         THEN Refuse("CreateContactAttempt", NullId, errs, NullStr, NullStr)
       ELSE
         /\ contacts' = Put(contacts, nextId.contacts, Stamp([room |-> room]))
         /\ nextId' = [nextId EXCEPT !.contacts = @ + 1]
         /\ ops' = ops + 1
         /\ last' =
             Done("CreateContactAttempt", nextId.contacts, {}, NullStr, NullStr, NoRows)
         /\ UNCHANGED <<users, rooms_access, tasklists, tasks, rooms, assignments,
                        checks, checkimages, roomimages, now>>

\* k.room_id = room; k.save()
UpdateContactAttempt(k, room) ==
    /\ ops < MaxOps
    /\ k \in DOMAIN contacts
    /\ LET errs == Err(FkOK(rooms, room),
                       "fk_not_found") IN
       IF errs # {}
         THEN Refuse("UpdateContactAttempt", k, errs, NullStr, NullStr)
       ELSE
         /\ contacts' = Put(contacts, k, Touch(contacts[k], [room |-> room]))
         /\ ops' = ops + 1
         /\ last' = Done("UpdateContactAttempt", k, {}, NullStr, NullStr, NoRows)
         /\ UNCHANGED <<users, rooms_access, tasklists, tasks, rooms, assignments,
                        checks, checkimages, roomimages, nextId, now>>

\* ----------------------------------------------------------------- RoomImage
\* RoomImage.objects.create(room_id=room, image_type=image_type)
CreateRoomImage(room, image_type, clean) ==
    /\ ops < MaxOps
    /\ nextId.roomimages <= MaxRoomImages
    /\ LET errs == Err(ChoiceOK(image_type, IMAGE_TYPE_CHOICES, clean),
                       "invalid_choice")
               \cup Err(FkOK(rooms, room),
                         "fk_not_found") IN
       IF errs # {}
         THEN Refuse("CreateRoomImage", NullId, errs, NullStr, NullStr)
       ELSE
         /\ roomimages' = Put(roomimages, nextId.roomimages,
                              Stamp([room |-> room, image_type |-> image_type]))
         /\ nextId' = [nextId EXCEPT !.roomimages = @ + 1]
         /\ ops' = ops + 1
         /\ last' = Done("CreateRoomImage", nextId.roomimages, {}, NullStr, NullStr, NoRows)
         /\ UNCHANGED <<users, rooms_access, tasklists, tasks, rooms, assignments,
                        checks, checkimages, contacts, now>>

\* i.room_id = room; i.image_type = image_type; i.save()
UpdateRoomImage(i, room, image_type, clean) ==
    /\ ops < MaxOps
    /\ i \in DOMAIN roomimages
    /\ LET errs == Err(ChoiceOK(image_type, IMAGE_TYPE_CHOICES, clean),
                       "invalid_choice")
               \cup Err(FkOK(rooms, room),
                         "fk_not_found") IN
       IF errs # {}
         THEN Refuse("UpdateRoomImage", i, errs, NullStr, NullStr)
       ELSE
         /\ roomimages' = Put(roomimages, i,
                              Touch(roomimages[i],
                                    [room |-> room, image_type |-> image_type]))
         /\ ops' = ops + 1
         /\ last' = Done("UpdateRoomImage", i, {}, NullStr, NullStr, NoRows)
         /\ UNCHANGED <<users, rooms_access, tasklists, tasks, rooms, assignments,
                        checks, checkimages, contacts, nextId, now>>

\* ------------------------------------------------------------------- delete
\* One operator per on_delete declaration: the rows of the declaring table
\* that reference one of the given parents.
\* on_delete=DO_NOTHING in place of the declared policy leaves the rows alone.
TaskList_user_DoNothing(U)   == {}
Task_assigned_to_DoNothing(U) == {}
RoomCheck_room_DoNothing(R)  == {}
RoomCheck_task_DoNothing(T)  == {}
\* The join table cleaned on the User side only.
User_rooms_access_UserOnly(U, R) == {p \in rooms_access : p[1] \in U}

TaskList_user(U)             == {l \in DOMAIN tasklists : tasklists[l].user \in U}
Task_task_list(L)            == {t \in DOMAIN tasks : tasks[t].task_list \in L}
Task_assigned_to(U)          == {t \in DOMAIN tasks : tasks[t].assigned_to \in U}
RoomAssignment_room(R)       == {a \in DOMAIN assignments : assignments[a].room \in R}
RoomAssignment_user(U)       == {a \in DOMAIN assignments : assignments[a].user \in U}
RoomCheck_room(R)            == {c \in DOMAIN checks : checks[c].room \in R}
RoomCheck_task(T)            == {c \in DOMAIN checks : checks[c].task \in T}
RoomCheck_student_staff(U)   == {c \in DOMAIN checks : checks[c].student_staff \in U}
RoomCheckImage_room_check(C) == {i \in DOMAIN checkimages : checkimages[i].room_check \in C}
ContactAttempt_room(R)       == {k \in DOMAIN contacts : contacts[k].room \in R}
RoomImage_room(R)            == {i \in DOMAIN roomimages : roomimages[i].room \in R}
User_rooms_access(U, R)      == {p \in rooms_access : p[1] \in U \/ p[2] \in R}

\* The deletion collector: from the rows asked for (seed), everything the
\* CASCADE declarations reach, and the Tasks that SET_NULL clears.
Collect(seed) ==
    LET U  == seed.users
        R  == seed.rooms
        L  == seed.tasklists \cup TaskList_user(U)
        T  == seed.tasks \cup Task_task_list(L)
        A  == seed.assignments \cup RoomAssignment_room(R) \cup RoomAssignment_user(U)
        C  == seed.checks \cup RoomCheck_room(R) \cup RoomCheck_task(T)
                \cup RoomCheck_student_staff(U)
        CI == seed.checkimages \cup RoomCheckImage_room_check(C)
    IN  [users |-> U, access |-> User_rooms_access(U, R), tasklists |-> L,
         tasks |-> T, rooms |-> R, assignments |-> A, checks |-> C,
         checkimages |-> CI, contacts |-> seed.contacts \cup ContactAttempt_room(R),
         roomimages |-> seed.roomimages \cup RoomImage_room(R),
         nulled |-> Task_assigned_to(U) \ T]

\* SET_NULL is one UPDATE of the column: no save() of the Task, so auto_now
\* does not run for it.
Cleared(t) == [tasks[t] EXCEPT !.assigned_to = NullId]

\* obj.delete(): remove what the collector found, clear what it marked.
Delete(op, id, seed) ==
    LET g == Collect(seed) IN
    /\ ops < MaxOps
    /\ users' = Drop(users, g.users)
    /\ rooms_access' = rooms_access \ g.access
    /\ tasklists' = Drop(tasklists, g.tasklists)
    /\ tasks' = [t \in DOMAIN tasks \ g.tasks |->
                    IF t \in g.nulled THEN Cleared(t) ELSE tasks[t]]
    /\ rooms' = Drop(rooms, g.rooms)
    /\ assignments' = Drop(assignments, g.assignments)
    /\ checks' = Drop(checks, g.checks)
    /\ checkimages' = Drop(checkimages, g.checkimages)
    /\ contacts' = Drop(contacts, g.contacts)
    /\ roomimages' = Drop(roomimages, g.roomimages)
    /\ ops' = ops + 1
    /\ last' = Done(op, id, {}, NullStr, NullStr, g)
    /\ UNCHANGED <<nextId, now>>

DeleteUser(u) ==
    u \in DOMAIN users /\ Delete("DeleteUser", u, [NoRows EXCEPT !.users = {u}])
DeleteTaskList(l) ==
    l \in DOMAIN tasklists /\ Delete("DeleteTaskList", l, [NoRows EXCEPT !.tasklists = {l}])
DeleteTask(t) ==
    t \in DOMAIN tasks /\ Delete("DeleteTask", t, [NoRows EXCEPT !.tasks = {t}])
DeleteRoom(r) ==
    r \in DOMAIN rooms /\ Delete("DeleteRoom", r, [NoRows EXCEPT !.rooms = {r}])
DeleteRoomAssignment(a) ==
    a \in DOMAIN assignments
    /\ Delete("DeleteRoomAssignment", a, [NoRows EXCEPT !.assignments = {a}])
DeleteRoomCheck(c) ==
    c \in DOMAIN checks /\ Delete("DeleteRoomCheck", c, [NoRows EXCEPT !.checks = {c}])
DeleteRoomCheckImage(i) ==
    i \in DOMAIN checkimages
    /\ Delete("DeleteRoomCheckImage", i, [NoRows EXCEPT !.checkimages = {i}])
DeleteContactAttempt(k) ==
    k \in DOMAIN contacts
    /\ Delete("DeleteContactAttempt", k, [NoRows EXCEPT !.contacts = {k}])
DeleteRoomImage(i) ==
    i \in DOMAIN roomimages
    /\ Delete("DeleteRoomImage", i, [NoRows EXCEPT !.roomimages = {i}])

\* ----------------------------------------------------------- specifications
UserIds       == 1..MaxUsers
TaskListIds   == 1..MaxTaskLists
TaskIds       == 1..MaxTasks
RoomIds       == 1..MaxRooms
AssignmentIds == 1..MaxAssignments
CheckIds      == 1..MaxChecks
CheckImageIds == 1..MaxCheckImages
ContactIds    == 1..MaxContacts
RoomImageIds  == 1..MaxRoomImages

\* Spec: every model class with its create, update and delete and the
\* rooms_access relation.  Foreign keys range over every primary key of the
\* parent table, stored or not; the constrained character columns take their
\* defaults and all operations read the same clock value.
Next ==
    \/ CreateUser(NullStr, NullStr, RoleDefault, StatusDefault, FALSE)
    \/ \E u \in DOMAIN users :
          UpdateUser(u, users[u].student_id, users[u].email, users[u].role,
                     users[u].status, FALSE)
    \/ \E u \in UserIds : DeleteUser(u)
    \/ \E u \in UserIds, r \in RoomIds : GrantAccess(u, r)
    \/ \E u \in UserIds, r \in RoomIds : RevokeAccess(u, r)
    \/ \E u \in UserIds : CreateTaskList(u)
    \/ \E l \in TaskListIds, u \in UserIds : UpdateTaskList(l, u)
    \/ \E l \in TaskListIds : DeleteTaskList(l)
    \/ \E l \in TaskListIds, u \in UserIds \cup {NullId} :
          CreateTask(l, u, RecurrenceDefault, FALSE, FALSE)
    \/ \E t \in DOMAIN tasks, l \in TaskListIds :
          UpdateTask(t, l, tasks[t].assigned_to, tasks[t].recurrence_type,
                     tasks[t].completed, FALSE)
    \/ \E t \in DOMAIN tasks, u \in UserIds \cup {NullId} :
          UpdateTask(t, tasks[t].task_list, u, tasks[t].recurrence_type,
                     tasks[t].completed, FALSE)
    \/ \E t \in DOMAIN tasks :
          UpdateTask(t, tasks[t].task_list, tasks[t].assigned_to,
                     tasks[t].recurrence_type, TRUE, FALSE)
    \/ \E t \in TaskIds : DeleteTask(t)
    \/ CreateRoom
    \/ \E r \in RoomIds : UpdateRoom(r)
    \/ \E r \in RoomIds : DeleteRoom(r)
    \/ \E r \in RoomIds, u \in UserIds : CreateRoomAssignment(r, u)
    \/ \E a \in DOMAIN assignments, r \in RoomIds :
          UpdateRoomAssignment(a, r, assignments[a].user)
    \/ \E a \in DOMAIN assignments, u \in UserIds :
          UpdateRoomAssignment(a, assignments[a].room, u)
    \/ \E a \in AssignmentIds : DeleteRoomAssignment(a)
    \/ \E r \in RoomIds, t \in TaskIds, u \in UserIds : CreateRoomCheck(r, t, u, FALSE)
    \/ \E c \in DOMAIN checks, r \in RoomIds :
          UpdateRoomCheck(c, r, checks[c].task, checks[c].student_staff,
                          checks[c].completed)
    \/ \E c \in DOMAIN checks, t \in TaskIds :
          UpdateRoomCheck(c, checks[c].room, t, checks[c].student_staff,
                          checks[c].completed)
    \/ \E c \in DOMAIN checks, u \in UserIds :
          UpdateRoomCheck(c, checks[c].room, checks[c].task, u, checks[c].completed)
    \/ \E c \in CheckIds : DeleteRoomCheck(c)
    \/ \E c \in CheckIds : CreateRoomCheckImage(c)
    \/ \E i \in CheckImageIds, c \in CheckIds : UpdateRoomCheckImage(i, c)
    \/ \E i \in CheckImageIds : DeleteRoomCheckImage(i)
    \/ \E r \in RoomIds : CreateContactAttempt(r)
    \/ \E k \in ContactIds, r \in RoomIds : UpdateContactAttempt(k, r)
    \/ \E k \in ContactIds : DeleteContactAttempt(k)
    \/ \E r \in RoomIds : CreateRoomImage(r, ImageTypeDefault, FALSE)
    \/ \E i \in DOMAIN roomimages, r \in RoomIds :
          UpdateRoomImage(i, r, roomimages[i].image_type, FALSE)
    \/ \E i \in RoomImageIds : DeleteRoomImage(i)

Spec == Init /\ [][Next]_vars

\* SpecUsers: the User table alone, with the unique columns ranging over
\* NULL, the empty string and present values, saved with and without
\* full_clean().
SidInputs   == {NullStr, "", "1001"}
EmailInputs == {NullStr, "a@x.org", "b@x.org"}

NextUsers ==
    \/ \E sid \in SidInputs, email \in EmailInputs, clean \in BOOLEAN :
          CreateUser(sid, email, RoleDefault, StatusDefault, clean)
    \/ \E u \in DOMAIN users, sid \in SidInputs, email \in EmailInputs, clean \in BOOLEAN :
          UpdateUser(u, sid, email, users[u].role, users[u].status, clean)
    \/ \E u \in UserIds : DeleteUser(u)

SpecUsers == Init /\ [][NextUsers]_vars

\* SpecChoices: the three model classes with choices= columns (and the
\* parents they need), written with values inside and outside the choices,
\* with and without full_clean().
RoleInputs       == {"student", "admin", "teacher"}
StatusInputs     == {"enrolled", "graduated"}
RecurrenceInputs == {"none", "weekly", "monthly"}
ImageTypeInputs  == {"default", "photo"}

NextChoices ==
    \/ \E role \in RoleInputs, status \in StatusInputs, clean \in BOOLEAN :
          CreateUser(NullStr, NullStr, role, status, clean)
    \/ \E u \in DOMAIN users, role \in RoleInputs, status \in StatusInputs, clean \in BOOLEAN :
          UpdateUser(u, users[u].student_id, users[u].email, role, status, clean)
    \/ \E u \in UserIds : CreateTaskList(u)
    \/ \E l \in TaskListIds, rec \in RecurrenceInputs, clean \in BOOLEAN :
          CreateTask(l, NullId, rec, FALSE, clean)
    \/ \E t \in DOMAIN tasks, rec \in RecurrenceInputs, clean \in BOOLEAN :
          UpdateTask(t, tasks[t].task_list, tasks[t].assigned_to, rec,
                     tasks[t].completed, clean)
    \/ CreateRoom
    \/ \E r \in RoomIds, ty \in ImageTypeInputs, clean \in BOOLEAN :
          CreateRoomImage(r, ty, clean)
    \/ \E i \in DOMAIN roomimages, ty \in ImageTypeInputs, clean \in BOOLEAN :
          UpdateRoomImage(i, roomimages[i].room, ty, clean)

SpecChoices == Init /\ [][NextChoices]_vars

\* SpecTime: Users, TaskLists and Tasks under a clock that moves on between
\* the operations.
NextTime ==
    \/ Tick
    \/ CreateUser(NullStr, NullStr, RoleDefault, StatusDefault, FALSE)
    \/ \E u \in DOMAIN users :
          UpdateUser(u, users[u].student_id, users[u].email, "admin", users[u].status, FALSE)
    \/ \E u \in UserIds : DeleteUser(u)
    \/ \E u \in UserIds : CreateTaskList(u)
    \/ \E l \in TaskListIds, u \in UserIds : UpdateTaskList(l, u)
    \/ \E l \in TaskListIds, u \in UserIds \cup {NullId} :
          CreateTask(l, u, RecurrenceDefault, FALSE, FALSE)
    \/ \E t \in DOMAIN tasks, u \in UserIds \cup {NullId} :
          UpdateTask(t, tasks[t].task_list, u, tasks[t].recurrence_type,
                     tasks[t].completed, FALSE)
    \/ \E t \in TaskIds : DeleteTask(t)

SpecTime == Init /\ [][NextTime]_vars

\* ------------------------------------------------------------------- claims
\* The rows of a table whose column col holds one of the values in S.
Having(tbl, col, S) == {i \in DOMAIN tbl : tbl[i][col] \in S}

\* C1: creating a User whose email or student_id equals that of a stored User
\* is refused with a uniqueness violation, and the stored Users (and every
\* other table) are as before.
C1_DuplicateUserRefused ==
    [][(/\ last'.op = "CreateUser"
        /\ \E u \in DOMAIN users :
              \/ last'.email # NullStr /\ users[u].email = last'.email
              \/ last'.sid # NullStr /\ users[u].student_id = last'.sid)
       => (/\ "unique" \in last'.errors
           /\ users' = users
           /\ tables' = tables)]_vars

\* A create that repeats the student_id and the email of a stored User was
\* refused for uniqueness.
C1_Witness ==
    /\ last.op = "CreateUser"
    /\ "unique" \in last.errors
    /\ \E u \in DOMAIN users :
          /\ users[u].email = last.email /\ last.email # NullStr
          /\ users[u].student_id = last.sid /\ last.sid # NullStr

\* C8: no two distinct Users share a present student_id or a present email,
\* and a User written with both columns NULL is never refused for uniqueness,
\* however many such Users are stored.
C8_UniqueWhenPresent ==
    /\ \A u, v \in DOMAIN users :
          u # v => /\ (users[u].student_id = users[v].student_id
                          => users[u].student_id = NullStr)
                   /\ (users[u].email = users[v].email => users[u].email = NullStr)
    /\ (last.op \in {"CreateUser", "UpdateUser"}
          /\ last.sid = NullStr /\ last.email = NullStr)
       => "unique" \notin last.errors

\* Two Users without student_id and without email are stored, the second one
\* just created.
C8_Witness ==
    /\ last.op = "CreateUser" /\ last.errors = {}
    /\ last.sid = NullStr /\ last.email = NullStr
    /\ \E u \in DOMAIN users :
          /\ u # last.id
          /\ users[u].student_id = NullStr /\ users[u].email = NullStr

\* C4: no stored record holds a value outside the enumerated set of its
\* choices column.
C4_ChoicesEnforced ==
    /\ \A u \in DOMAIN users :
          users[u].role \in ROLE_CHOICES /\ users[u].status \in STATUS_CHOICES
    /\ \A t \in DOMAIN tasks : tasks[t].recurrence_type \in RECURRENCE_CHOICES
    /\ \A i \in DOMAIN roomimages : roomimages[i].image_type \in IMAGE_TYPE_CHOICES

\* C5: every non-empty foreign key of every stored record references a
\* stored record.
C5_ReferentialIntegrity ==
    /\ \A l \in DOMAIN tasklists : tasklists[l].user \in DOMAIN users
    /\ \A t \in DOMAIN tasks :
          /\ tasks[t].task_list \in DOMAIN tasklists
          /\ tasks[t].assigned_to # NullId => tasks[t].assigned_to \in DOMAIN users
    /\ \A a \in DOMAIN assignments :
          assignments[a].room \in DOMAIN rooms /\ assignments[a].user \in DOMAIN users
    /\ \A c \in DOMAIN checks :
          /\ checks[c].room \in DOMAIN rooms
          /\ checks[c].task \in DOMAIN tasks
          /\ checks[c].student_staff \in DOMAIN users
    /\ \A i \in DOMAIN checkimages : checkimages[i].room_check \in DOMAIN checks
    /\ \A k \in DOMAIN contacts : contacts[k].room \in DOMAIN rooms
    /\ \A i \in DOMAIN roomimages : roomimages[i].room \in DOMAIN rooms

\* A create naming a parent that is not stored was refused while child rows
\* of three levels are stored.
C5_Witness ==
    /\ last.op \in {"CreateTaskList", "CreateTask", "CreateRoomAssignment",
                    "CreateRoomCheck", "CreateRoomCheckImage",
                    "CreateContactAttempt", "CreateRoomImage"}
    /\ "fk_not_found" \in last.errors
    /\ DOMAIN tasklists # {} /\ DOMAIN tasks # {} /\ DOMAIN checks # {}

\* C2: deleting a Room removes every RoomAssignment, RoomCheck, RoomImage and
\* ContactAttempt of that Room and every RoomCheckImage of the removed
\* RoomChecks: before the delete the listings of the room return the rows the
\* delete reports, after it they return nothing.
C2_RoomDeleteCascades ==
    [][\A r \in DOMAIN rooms :
          (last'.op = "DeleteRoom" /\ last'.id = r) =>
             LET C == Having(checks, "room", {r}) IN
             /\ r \notin DOMAIN rooms'
             /\ last'.rows.assignments = Having(assignments, "room", {r})
             /\ last'.rows.checks = C
             /\ last'.rows.checkimages = Having(checkimages, "room_check", C)
             /\ last'.rows.contacts = Having(contacts, "room", {r})
             /\ last'.rows.roomimages = Having(roomimages, "room", {r})
             /\ Having(assignments, "room", {r}) \cap DOMAIN assignments' = {}
             /\ C \cap DOMAIN checks' = {}
             /\ Having(checkimages, "room_check", C) \cap DOMAIN checkimages' = {}
             /\ Having(contacts, "room", {r}) \cap DOMAIN contacts' = {}
             /\ Having(roomimages, "room", {r}) \cap DOMAIN roomimages' = {}
             /\ Having(assignments', "room", {r}) = {}
             /\ Having(checks', "room", {r}) = {}
             /\ Having(checkimages', "room_check", C) = {}
             /\ Having(contacts', "room", {r}) = {}
             /\ Having(roomimages', "room", {r}) = {}]_vars

\* A Room was deleted that had a RoomCheck with a RoomCheckImage; both are gone.
C2_Witness ==
    /\ last.op = "DeleteRoom"
    /\ last.rows.checks # {} /\ last.rows.checkimages # {}
    /\ last.rows.checks \cap DOMAIN checks = {}
    /\ last.rows.checkimages \cap DOMAIN checkimages = {}

\* C3 as stated: deleting a User leaves every Task assigned to that User
\* stored, with assigned_to empty, whatever TaskList the Task belongs to.
C3_AssignedTaskSurvives ==
    [][\A u \in DOMAIN users :
          (last'.op = "DeleteUser" /\ last'.id = u) =>
             \A t \in Having(tasks, "assigned_to", {u}) :
                 t \in DOMAIN tasks' /\ tasks'[t].assigned_to = NullId]_vars

\* C3 amended: deleting a User leaves every Task assigned to that User whose
\* TaskList belongs to another User stored, with assigned_to empty and its
\* TaskList as before; a Task in a TaskList of the deleted User is removed.
C3_AssignedTaskSurvivesInOthersList ==
    [][\A u \in DOMAIN users :
          (last'.op = "DeleteUser" /\ last'.id = u) =>
             \A t \in Having(tasks, "assigned_to", {u}) :
                 IF tasks[t].task_list \in Having(tasklists, "user", {u})
                   THEN t \notin DOMAIN tasks'
                   ELSE /\ t \in DOMAIN tasks'
                        /\ tasks'[t].assigned_to = NullId
                        /\ tasks'[t].task_list = tasks[t].task_list]_vars

\* A User was deleted who was assigned to a Task in another User's TaskList;
\* the Task is stored with assigned_to empty.
C3_Witness ==
    /\ last.op = "DeleteUser"
    /\ \E t \in last.rows.nulled :
          /\ t \in DOMAIN tasks
          /\ tasks[t].assigned_to = NullId
          /\ tasklists[tasks[t].task_list].user # last.id

\* C6: deleting a User removes the TaskLists of that User and the Tasks in
\* them, the RoomAssignments of that User, and the RoomChecks performed by
\* that User with their RoomCheckImages.
C6_UserDeleteCascades ==
    [][\A u \in DOMAIN users :
          (last'.op = "DeleteUser" /\ last'.id = u) =>
             LET L == Having(tasklists, "user", {u})
                 C == Having(checks, "student_staff", {u})
             IN
             /\ u \notin DOMAIN users'
             /\ L \cap DOMAIN tasklists' = {}
             /\ Having(tasks, "task_list", L) \cap DOMAIN tasks' = {}
             /\ Having(assignments, "user", {u}) \cap DOMAIN assignments' = {}
             /\ C \cap DOMAIN checks' = {}
             /\ Having(checkimages, "room_check", C) \cap DOMAIN checkimages' = {}
             /\ Having(tasklists', "user", {u}) = {}
             /\ Having(tasks', "task_list", L) = {}
             /\ Having(assignments', "user", {u}) = {}
             /\ Having(checks', "student_staff", {u}) = {}
             /\ Having(checkimages', "room_check", C) = {}]_vars

\* A User was deleted who owned a TaskList with a Task and had performed a
\* RoomCheck with a RoomCheckImage; all four are gone.
C6_Witness ==
    /\ last.op = "DeleteUser"
    /\ last.rows.tasklists # {} /\ last.rows.tasks # {}
    /\ last.rows.checks # {} /\ last.rows.checkimages # {}
    /\ DOMAIN tasklists = {} /\ DOMAIN tasks = {}
    /\ DOMAIN checks = {} /\ DOMAIN checkimages = {}

\* C7: in every step, the Tasks of a removed TaskList, the RoomChecks of a
\* removed Task and the RoomCheckImages of a removed RoomCheck are removed
\* with it; deleting a TaskList or a RoomCheck removes it.
C7_CascadeIsTransitive ==
    [][LET L == DOMAIN tasklists \ DOMAIN tasklists'
           T == DOMAIN tasks \ DOMAIN tasks'
           C == DOMAIN checks \ DOMAIN checks'
       IN
       /\ (last'.op = "DeleteTaskList" /\ last'.id \in DOMAIN tasklists) => last'.id \in L
       /\ (last'.op = "DeleteRoomCheck" /\ last'.id \in DOMAIN checks) => last'.id \in C
       /\ Having(tasks, "task_list", L) \subseteq T
       /\ Having(checks, "task", T) \subseteq C
       /\ Having(checkimages, "room_check", C) \cap DOMAIN checkimages' = {}]_vars

\* A TaskList was deleted whose Task had a RoomCheck with a RoomCheckImage;
\* the three are gone.
C7_Witness ==
    /\ last.op = "DeleteTaskList"
    /\ last.rows.tasks # {} /\ last.rows.checks # {} /\ last.rows.checkimages # {}
    /\ last.rows.tasks \cap DOMAIN tasks = {}
    /\ last.rows.checks \cap DOMAIN checks = {}
    /\ last.rows.checkimages \cap DOMAIN checkimages = {}

\* The rows ids of a table are stored after the step as they were before it.
Kept(old, new, ids) == \A i \in ids : i \in DOMAIN new /\ new[i] = old[i]

\* Deleting Room r leaves the other Rooms and everything that depends on them
\* as they were.
OtherRoomsKept(r) ==
    LET C == Having(checks, "room", {r}) IN
    /\ Kept(rooms, rooms', DOMAIN rooms \ {r})
    /\ Kept(assignments, assignments', DOMAIN assignments \ Having(assignments, "room", {r}))
    /\ Kept(checks, checks', DOMAIN checks \ C)
    /\ Kept(checkimages, checkimages',
            DOMAIN checkimages \ Having(checkimages, "room_check", C))
    /\ Kept(contacts, contacts', DOMAIN contacts \ Having(contacts, "room", {r}))
    /\ Kept(roomimages, roomimages', DOMAIN roomimages \ Having(roomimages, "room", {r}))

\* C10 as stated: deleting a Room deletes and modifies no User, TaskList or
\* Task (a User taken with its rooms_access), and leaves the records that
\* depend on other Rooms untouched.
C10_RoomDeleteFrame ==
    [][\A r \in DOMAIN rooms :
          (last'.op = "DeleteRoom" /\ last'.id = r) =>
             /\ users' = users
             /\ \A u \in DOMAIN users :
                   RoomsAccess(rooms_access', u) = RoomsAccess(rooms_access, u)
             /\ tasklists' = tasklists
             /\ tasks' = tasks
             /\ OtherRoomsKept(r)]_vars

\* C10 amended: deleting a Room deletes no User, TaskList or Task and changes
\* no column of theirs; of a User's rooms_access it removes the deleted Room
\* and nothing else; the records that depend on other Rooms are untouched.
C10_RoomDeleteFrameButAccess ==
    [][\A r \in DOMAIN rooms :
          (last'.op = "DeleteRoom" /\ last'.id = r) =>
             /\ users' = users
             /\ \A u \in DOMAIN users :
                   RoomsAccess(rooms_access', u) = RoomsAccess(rooms_access, u) \ {r}
             /\ tasklists' = tasklists
             /\ tasks' = tasks
             /\ OtherRoomsKept(r)]_vars

\* A Room was deleted to which a User had access and which had a RoomCheck:
\* the RoomCheck is gone, its Task and the User are stored, the User's access
\* to the Room is gone.
C10_Witness ==
    /\ last.op = "DeleteRoom"
    /\ last.rows.checks # {} /\ DOMAIN tasks # {}
    /\ \E p \in last.rows.access : p[1] \in DOMAIN users /\ p \notin rooms_access

\* The timestamps of a table over one step read at clock: a new row has both
\* set to clock; a stored row keeps created_at, has updated_at = clock if
\* anything of it changed, and updated_at is never before created_at.
StampsFollow(old, new, clock) ==
    /\ \A i \in DOMAIN new \ DOMAIN old :
          new[i].created_at = clock /\ new[i].updated_at = clock
    /\ \A i \in DOMAIN new \cap DOMAIN old :
          /\ new[i].created_at = old[i].created_at
          /\ new[i] # old[i] => new[i].updated_at = clock
          /\ new[i].updated_at >= new[i].created_at

\* C9: created_at is set at creation and never changes; updated_at is set on
\* every write that modifies the record, the clearing of Task.assigned_to by
\* the deletion of the User included.
C9_TimestampsFollowWrites ==
    [][/\ StampsFollow(users, users', now')
       /\ StampsFollow(tasklists, tasklists', now')
       /\ StampsFollow(tasks, tasks', now')
       /\ StampsFollow(rooms, rooms', now')
       /\ StampsFollow(assignments, assignments', now')
       /\ StampsFollow(checks, checks', now')
       /\ StampsFollow(checkimages, checkimages', now')
       /\ StampsFollow(contacts, contacts', now')
       /\ StampsFollow(roomimages, roomimages', now')]_vars

====
